---- MODULE Spec2Model ----
(***************************************************************************)
(* A model of the OpenDaylight REST client library (OpenDaylight.py): the  *)
(* connection object OpenDaylight, the two gateways OpenDaylightFlow and   *)
(* OpenDaylightNode that share it, and the HTTP transport as a             *)
(* nondeterministic responder.                                             *)
(***************************************************************************)
EXTENDS Integers, Sequences, FiniteSets, TLC

VARIABLES odl,     \* the OpenDaylight object: setup, _base_url, url, auth
          flow,    \* the OpenDaylightFlow object: request, flows
          node,    \* the OpenDaylightNode object: request, nodes, node_connectors
          last,    \* the most recent finished call, as its caller and the transport saw it
          thr,     \* per gateway, the call in progress (used when calls interleave)
          ncalls   \* number of gateway calls started so far

vars == <<odl, flow, node, last, thr, ncalls>>

----------------------------------------------------------------------------
(* Bounds of the exploration *)

MaxCalls == 2

----------------------------------------------------------------------------
(* Python values.  Every value is a record tagged by its type in field t.  *)

None == [t |-> "None"]
Absent == [t |-> "absent"]            \* an attribute removed by del
Str(s) == [t |-> "str", s |-> s]
Num(n) == [t |-> "num", n |-> n]
List(elems) == [t |-> "list", elems |-> elems]
Dict(items) == [t |-> "dict", items |-> items]

Response(status_code, text) ==
    [t |-> "Response", status_code |-> status_code, text |-> text]

HTTPBasicAuth(username, password) ==
    [t |-> "HTTPBasicAuth", username |-> username, password |-> password]

Returned == [t |-> "returned", exc |-> "", payload |-> None]
Raised(exc, payload) == [t |-> "raised", exc |-> exc, payload |-> payload]

OpenDaylightError(url, http_code, msg) ==
    Raised("OpenDaylightError",
           [url |-> url, http_code |-> http_code, msg |-> msg])

----------------------------------------------------------------------------
(* Inputs *)

NodeIds == {"00:00:01"}
FlowNames == {"f1"}

Gateways == {"flow", "node"}

\* response bodies
BodyFlowConfig == "{\"flowConfig\": {\"name\": \"f1\"}}"
BodyNodeProperties ==
    "{\"nodeProperties\": [], \"nodeConnectorProperties\": []}"
BodyKeyList == "[\"flowConfig\", \"nodeProperties\", \"nodeConnectorProperties\"]"
BodyEmptyList == "[]"
BodyKeyString == "\"flowConfig nodeProperties nodeConnectorProperties\""
BodyPlainString == "\"ok\""
BodyNumber == "7"
BodyNull == "null"
BodyNotJson == "internal error"
BodyEmpty == ""

JsonBodies == {BodyFlowConfig, BodyNodeProperties, BodyKeyList, BodyEmptyList,
               BodyKeyString, BodyPlainString, BodyNumber, BodyNull}

Bodies == JsonBodies \cup {BodyNotJson}

StatusCodes == {200, 201, 204, 400, 404, 409, 500}

\* what the transport may answer
Responses ==
    {Response(200, b) : b \in Bodies}
    \cup {Response(s, BodyEmpty) : s \in StatusCodes \ {200, 404, 500}}
    \cup {Response(500, BodyNotJson), Response(404, BodyFlowConfig)}

\* flowConfig dictionaries a caller may add
Flows ==
    {Dict("node" :> Dict("@id" :> Str(i) @@ "@type" :> Str("OF")) @@
          "name" :> Str(n))
       : n \in {"f1"}, i \in NodeIds}

\* the values a caller writes into odl.setup for another installation
OtherSetup ==
    [username |-> "dale", password |-> "secret", hostname |-> "10.10.10.1",
     port |-> "8181", path |-> "/nb/v3/", container |-> "lab",
     http |-> "https://"]

----------------------------------------------------------------------------
(* Library semantics the gateways rely on *)

\* json.loads on the response bodies above; ValueError when the text is not JSON
json_loads(text) ==
    CASE text = BodyFlowConfig ->
             Dict("flowConfig" :> Dict("name" :> Str("f1")))
      [] text = BodyNodeProperties ->
             Dict("nodeProperties" :> List(<<>>) @@
                  "nodeConnectorProperties" :> List(<<>>))
      [] text = BodyKeyList ->
             List(<<Str("flowConfig"), Str("nodeProperties"),
                    Str("nodeConnectorProperties")>>)
      [] text = BodyEmptyList -> List(<<>>)
      [] text = BodyKeyString ->
             Str("flowConfig nodeProperties nodeConnectorProperties")
      [] text = BodyPlainString -> Str("ok")
      [] text = BodyNumber -> Num(7)
      [] text = BodyNull -> None
      [] OTHER -> Raised("ValueError", None)

\* Response.json()
json(response) == json_loads(response.text)

\* the pieces the strings above split into around a wrapper key
Affixes == {"", "flowConfig ", "flowConfig nodeProperties ",
            " nodeConnectorProperties",
            " nodeProperties nodeConnectorProperties"}

\* Python's `key in v`: key lookup on a dict, element equality on a list,
\* substring on a str, TypeError on a value that is not a container
py_in(key, v) ==
    CASE v.t = "dict" -> IF key \in DOMAIN v.items THEN "True" ELSE "False"
      [] v.t = "list" ->
             IF \E i \in 1..Len(v.elems) :
                    v.elems[i].t = "str" /\ v.elems[i].s = key
             THEN "True" ELSE "False"
      [] v.t = "str" ->
             IF \E a \in Affixes, b \in Affixes : a \o key \o b = v.s
             THEN "True" ELSE "False"
      [] OTHER -> "TypeError"

\* Python's `v.get(key)`: only a dict has the method
py_get(v, key) ==
    IF v.t = "dict"
    THEN (IF key \in DOMAIN v.items THEN v.items[key] ELSE None)
    ELSE Raised("AttributeError", None)

\* the transport call requests.get / requests.post / requests.delete: one
\* request put on the wire
HttpRequest(method, url, auth, data, headers) ==
    [url |-> url, method |-> method, auth |-> auth, data |-> data,
     headers |-> headers]

\* a transport call that sends the request a second time
requests_call_retry(wire, method, url, auth, data, headers) ==
    Append(Append(wire, HttpRequest(method, url, auth, data, headers)),
           HttpRequest(method, url, auth, data, headers))

requests_call(wire, method, url, auth, data, headers) ==
    Append(wire, HttpRequest(method, url, auth, data, headers))

\* json.dumps of a flowConfig dictionary with the keys name and node
json_dumps(f) ==
    "{\"name\": \"" \o f.items["name"].s \o "\", \"node\": {\"@id\": \""
    \o f.items["node"].items["@id"].s \o "\", \"@type\": \""
    \o f.items["node"].items["@type"].s \o "\"}}"

----------------------------------------------------------------------------
(* class OpenDaylight *)

DefaultSetup ==
    [username |-> "admin", password |-> "admin", hostname |-> "localhost",
     port |-> "8080", path |-> "/controller/nb/v2/",
     container |-> "default", http |-> "http://"]

Setups == {DefaultSetup, OtherSetup}

OpenDaylight_init ==
    [url |-> None, auth |-> None, setup |-> DefaultSetup, _base_url |-> None]

\* a url builder that keeps the base url of an earlier call
prepare_url_cached(o, app, path) ==
    LET base == IF o._base_url = None
                THEN o.setup.http \o o.setup.hostname \o ":" \o o.setup.port
                     \o o.setup.path
                ELSE o._base_url.s
    IN [o EXCEPT !._base_url = Str(base),
                 !.url = Str(base \o app \o "/" \o o.setup.container \o path)]

prepare_url(o, app, path) ==
    LET base == o.setup.http \o o.setup.hostname \o ":" \o o.setup.port
                \o o.setup.path
    IN [o EXCEPT !._base_url = Str(base),
                 !.url = Str(base \o app \o "/" \o o.setup.container \o path)]

\* a credential step that blanks the password it has used
prepare_auth_consume(o) ==
    [o EXCEPT !.auth = HTTPBasicAuth(o.setup.username, o.setup.password),
              !.setup.password = ""]

prepare_auth(o) ==
    [o EXCEPT !.auth = HTTPBasicAuth(o.setup.username, o.setup.password)]

prepare(o, app, path) == prepare_auth(prepare_url(o, app, path))

----------------------------------------------------------------------------
(* class OpenDaylightFlow *)

FlowApp == "flow"

OpenDaylightFlow_init == [request |-> None, flows |-> None]

\* the methods the class defines; update is commented out
FlowMethods == {"get", "add", "delete"}

\* the result of a step of a method: the object after it and how it ended
Step(self, outcome) == [self |-> self, outcome |-> outcome]

get_clear(self) == [self EXCEPT !.request = Absent, !.flows = Absent]

\* a path selection that leaves out the trailing slash of a named flow
get_path_no_slash(node_id, flow_name) ==
    IF node_id = None THEN "/"
    ELSE IF flow_name = None THEN "/" \o "OF/" \o node_id.s \o "/"
    ELSE "/" \o "OF/" \o node_id.s \o "/" \o flow_name.s

get_path(node_id, flow_name) ==
    IF node_id = None THEN "/"
    ELSE IF flow_name = None THEN "/" \o "OF/" \o node_id.s \o "/"
    ELSE "/" \o "OF/" \o node_id.s \o "/" \o flow_name.s \o "/"

\* an interpretation that decodes the body whatever the status
get_interpret_decode_first(self, o) ==
    LET j == json(self.request)
        s1 == IF j.t = "raised" THEN self ELSE [self EXCEPT !.flows = j]
    IN IF self.request.status_code = 200
       THEN Step(s1, Returned)
       ELSE Step(s1, OpenDaylightError(o.url, self.request.status_code,
                                       self.request.text))

\* an interpretation that reports a body it cannot decode as a controller error
get_interpret_mask_decode(self, o) ==
    IF self.request.status_code = 200 /\ json(self.request).t # "raised"
    THEN LET j == json(self.request)
             s1 == [self EXCEPT !.flows = j]
             c == py_in("flowConfig", j)
             g == py_get(j, "flowConfig")
         IN IF c = "TypeError" THEN Step(s1, Raised("TypeError", None))
            ELSE IF c = "False" THEN Step(s1, Returned)
            ELSE IF g.t = "raised" THEN Step(s1, g)
            ELSE Step([s1 EXCEPT !.flows = g], Returned)
    ELSE Step(self, OpenDaylightError(o.url, self.request.status_code,
                                      self.request.text))

get_interpret(self, o) ==
    IF self.request.status_code = 200
    THEN LET j == json(self.request) IN
         IF j.t = "raised" THEN Step(self, j)
         ELSE LET s1 == [self EXCEPT !.flows = j]
                  c == py_in("flowConfig", j)
                  g == py_get(j, "flowConfig")
              IN IF c = "TypeError" THEN Step(s1, Raised("TypeError", None))
                 ELSE IF c = "False" THEN Step(s1, Returned)
                 ELSE IF g.t = "raised" THEN Step(s1, g)
                 ELSE Step([s1 EXCEPT !.flows = g], Returned)
    ELSE Step(self, OpenDaylightError(o.url, self.request.status_code,
                                      self.request.text))

add_clear(self) == [self EXCEPT !.request = Absent]

add_path(f) ==
    "/" \o f.items["node"].items["@type"].s \o "/"
    \o f.items["node"].items["@id"].s \o "/" \o f.items["name"].s \o "/"

\* a status check that takes 200 for a success as well
add_interpret_200(self, o) ==
    IF self.request.status_code \notin {200, 201}
    THEN Step(self, OpenDaylightError(o.url, self.request.status_code,
                                      self.request.text))
    ELSE Step(self, Returned)

add_interpret(self, o) ==
    IF self.request.status_code # 201
    THEN Step(self, OpenDaylightError(o.url, self.request.status_code,
                                      self.request.text))
    ELSE Step(self, Returned)

delete_clear(self) == [self EXCEPT !.request = Absent]

delete_path(node_id, flow_name) ==
    "/" \o "OF/" \o node_id.s \o "/" \o flow_name.s \o "/"

\* a status check that drops the stored response before it raises
delete_interpret_drop(self, o) ==
    IF self.request.status_code # 200
    THEN Step([self EXCEPT !.request = Absent],
              OpenDaylightError(o.url, self.request.status_code,
                                self.request.text))
    ELSE Step(self, Returned)

delete_interpret(self, o) ==
    IF self.request.status_code # 200
    THEN Step(self, OpenDaylightError(o.url, self.request.status_code,
                                      self.request.text))
    ELSE Step(self, Returned)

----------------------------------------------------------------------------
(* class OpenDaylightNode *)

NodeApp == "switch"

OpenDaylightNode_init ==
    [request |-> None, nodes |-> None, node_connectors |-> None]

\* the methods the class defines
NodeMethods == {"get_nodes", "get_node_connectors", "save",
                "delete_node_property", "add_node_property",
                "delete_node_connector_property",
                "add_node_connector_property"}

get_nodes_clear(self) == [self EXCEPT !.request = Absent, !.nodes = Absent]

get_nodes_path == "/nodes/"

get_nodes_interpret(self, o) ==
    IF self.request.status_code = 200
    THEN LET j == json(self.request) IN
         IF j.t = "raised" THEN Step(self, j)
         ELSE LET s1 == [self EXCEPT !.nodes = j]
                  c == py_in("nodeProperties", j)
                  g == py_get(j, "nodeProperties")
              IN IF c = "TypeError" THEN Step(s1, Raised("TypeError", None))
                 ELSE IF c = "False" THEN Step(s1, Returned)
                 ELSE IF g.t = "raised" THEN Step(s1, g)
                 ELSE Step([s1 EXCEPT !.nodes = g], Returned)
    ELSE Step(self, OpenDaylightError(o.url, self.request.status_code,
                                      self.request.text))

get_node_connectors_clear(self) ==
    [self EXCEPT !.request = Absent, !.node_connectors = Absent]

get_node_connectors_path(node_id) == "/node/" \o "OF/" \o node_id.s \o "/"

get_node_connectors_interpret(self, o) ==
    IF self.request.status_code = 200
    THEN LET j == json(self.request) IN
         IF j.t = "raised" THEN Step(self, j)
         ELSE LET s1 == [self EXCEPT !.node_connectors = j]
                  c == py_in("nodeConnectorProperties", j)
                  g == py_get(j, "nodeConnectorProperties")
              IN IF c = "TypeError" THEN Step(s1, Raised("TypeError", None))
                 ELSE IF c = "False" THEN Step(s1, Returned)
                 ELSE IF g.t = "raised" THEN Step(s1, g)
                 ELSE Step([s1 EXCEPT !.node_connectors = g], Returned)
    ELSE Step(self, OpenDaylightError(o.url, self.request.status_code,
                                      self.request.text))

save_clear(self) == [self EXCEPT !.request = Absent]

save_path == "/switch-config/"

\* a status check that takes every 2xx status for a success
save_interpret_2xx(self, o) ==
    IF self.request.status_code \notin {200, 201, 204}
    THEN Step(self, OpenDaylightError(o.url, self.request.status_code,
                                      self.request.text))
    ELSE Step(self, Returned)

save_interpret(self, o) ==
    IF self.request.status_code # 200
    THEN Step(self, OpenDaylightError(o.url, self.request.status_code,
                                      self.request.text))
    ELSE Step(self, Returned)

\* the four property methods only raise
NotImplemented(name) == Raised("NotImplementedError", Str(name \o "()"))

\* calling obj.name(): AttributeError when the class has no such method
call_unimplemented(methods, name) ==
    IF name \in methods THEN NotImplemented(name)
    ELSE Raised("AttributeError", Str(name))

----------------------------------------------------------------------------
(* Dispatch of a call by gateway and method name *)

ImplementedOps == {"get", "add", "delete", "get_nodes", "get_node_connectors",
                   "save"}

ReadOps == {"get", "get_nodes", "get_node_connectors"}

UnimplementedOps == {"update", "delete_node_property", "add_node_property",
                     "delete_node_connector_property",
                     "add_node_connector_property"}

Args(node_id, flow_name, f) ==
    [flow |-> f, node_id |-> node_id, flow_name |-> flow_name]

NoArgs == Args(None, None, None)

AppOf(gw) == IF gw = "flow" THEN FlowApp ELSE NodeApp

MethodsOf(gw) == IF gw = "flow" THEN FlowMethods ELSE NodeMethods

Clear(op, self) ==
    CASE op = "get" -> get_clear(self)
      [] op = "add" -> add_clear(self)
      [] op = "delete" -> delete_clear(self)
      [] op = "get_nodes" -> get_nodes_clear(self)
      [] op = "get_node_connectors" -> get_node_connectors_clear(self)
      [] op = "save" -> save_clear(self)

Path(op, args) ==
    CASE op = "get" -> get_path(args.node_id, args.flow_name)
      [] op = "add" -> add_path(args.flow)
      [] op = "delete" -> delete_path(args.node_id, args.flow_name)
      [] op = "get_nodes" -> get_nodes_path
      [] op = "get_node_connectors" -> get_node_connectors_path(args.node_id)
      [] op = "save" -> save_path

HttpMethod(op) ==
    CASE op \in ReadOps -> "GET"
      [] op \in {"add", "save"} -> "POST"
      [] op = "delete" -> "DELETE"

Data(op, args) == IF op = "add" THEN Str(json_dumps(args.flow)) ELSE None

Headers(op) ==
    IF op = "add" THEN Dict("Content-type" :> Str("application/json"))
    ELSE None

Interpret(op, self, o) ==
    CASE op = "get" -> get_interpret(self, o)
      [] op = "add" -> add_interpret(self, o)
      [] op = "delete" -> delete_interpret(self, o)
      [] op = "get_nodes" -> get_nodes_interpret(self, o)
      [] op = "get_node_connectors" -> get_node_connectors_interpret(self, o)
      [] op = "save" -> save_interpret(self, o)

----------------------------------------------------------------------------
(* State *)

Call(gw, op, args, path, built, wire, resp, outcome) ==
    [path |-> path, wire |-> wire, outcome |-> outcome, gw |-> gw, op |-> op,
     args |-> args, built |-> built, resp |-> resp]

NoCall == Call("none", "none", NoArgs, "", None, <<>>, None, Returned)

Idle == [path |-> "", wire |-> <<>>, op |-> "none", args |-> NoArgs,
         built |-> None, resp |-> None, pc |-> "idle"]

Init ==
    /\ odl = OpenDaylight_init
    /\ flow = OpenDaylightFlow_init
    /\ node = OpenDaylightNode_init
    /\ last = NoCall
    /\ thr = [g \in Gateways |-> Idle]
    /\ ncalls = 0

NodeIdArgs == {Str(i) : i \in NodeIds}
FlowNameArgs == {Str(n) : n \in FlowNames}

\* the arguments a caller may pass to each method
ArgsOf(op) ==
    CASE op = "get" ->
             {Args(node_id, flow_name, None) :
                 node_id \in NodeIdArgs \cup {None},
                 flow_name \in FlowNameArgs \cup {None}}
      [] op = "add" -> {Args(None, None, f) : f \in Flows}
      [] op = "delete" ->
             {Args(node_id, flow_name, None) :
                 node_id \in NodeIdArgs, flow_name \in FlowNameArgs}
      [] op = "get_node_connectors" ->
             {Args(node_id, None, None) : node_id \in NodeIdArgs}
      [] OTHER -> {NoArgs}

----------------------------------------------------------------------------
(* A single caller: each call runs from start to end before the next step *)

\* before a call, the caller rewrites the entries of odl.setup
SetSetup ==
    /\ ncalls < MaxCalls
    /\ \A g \in Gateways : thr[g].pc = "idle"
    /\ \E cfg \in Setups \ {odl.setup} : odl' = [odl EXCEPT !.setup = cfg]
    /\ UNCHANGED <<flow, node, last, thr, ncalls>>

Invoke(gw, op, args) ==
    /\ ncalls < MaxCalls
    /\ \A g \in Gateways : thr[g].pc = "idle"
    /\ \E resp \in Responses :
         LET self == IF gw = "flow" THEN flow ELSE node
             s1 == Clear(op, self)
             path == Path(op, args)
             o1 == prepare(odl, AppOf(gw), path)
             wire == requests_call(<<>>, HttpMethod(op), o1.url, o1.auth,
                                   Data(op, args), Headers(op))
             s2 == [s1 EXCEPT !.request = resp]
             r == Interpret(op, s2, o1)
         IN /\ odl' = o1
            /\ flow' = IF gw = "flow" THEN r.self ELSE flow
            /\ node' = IF gw = "node" THEN r.self ELSE node
            /\ last' = Call(gw, op, args, path, o1.url, wire, resp, r.outcome)
    /\ ncalls' = ncalls + 1
    /\ UNCHANGED thr

\* a method that does nothing but raise, or that the class does not define
InvokeUnimplemented(gw, op) ==
    /\ ncalls < MaxCalls
    /\ \A g \in Gateways : thr[g].pc = "idle"
    /\ last' = Call(gw, op, NoArgs, "", None, <<>>, None,
                    call_unimplemented(MethodsOf(gw), op))
    /\ ncalls' = ncalls + 1
    /\ UNCHANGED <<odl, flow, node, thr>>

Get == \E args \in ArgsOf("get") : Invoke("flow", "get", args)

Add == \E args \in ArgsOf("add") : Invoke("flow", "add", args)

Delete == \E args \in ArgsOf("delete") : Invoke("flow", "delete", args)

Update == InvokeUnimplemented("flow", "update")

GetNodes == \E args \in ArgsOf("get_nodes") : Invoke("node", "get_nodes", args)

GetNodeConnectors ==
    \E args \in ArgsOf("get_node_connectors") :
        Invoke("node", "get_node_connectors", args)

Save == \E args \in ArgsOf("save") : Invoke("node", "save", args)

DeleteNodeProperty == InvokeUnimplemented("node", "delete_node_property")

AddNodeProperty == InvokeUnimplemented("node", "add_node_property")

DeleteNodeConnectorProperty ==
    InvokeUnimplemented("node", "delete_node_connector_property")

AddNodeConnectorProperty ==
    InvokeUnimplemented("node", "add_node_connector_property")

Next ==
    \/ SetSetup
    \/ Get
    \/ Add
    \/ Delete
    \/ Update
    \/ GetNodes
    \/ GetNodeConnectors
    \/ Save
    \/ DeleteNodeProperty
    \/ AddNodeProperty
    \/ DeleteNodeConnectorProperty
    \/ AddNodeConnectorProperty

Spec == Init /\ [][Next]_vars

----------------------------------------------------------------------------
(* Two callers, one per gateway, sharing the OpenDaylight object: a call is  *)
(* three steps (clear and prepare, send, interpret) and the steps of the two *)
(* calls interleave.  Nobody writes odl.setup.                               *)

\* clear the previous result and prepare the url and the credentials
Begin(gw, op, args) ==
    /\ ncalls < MaxCalls
    /\ thr[gw].pc = "idle"
    /\ LET path == Path(op, args)
           o1 == prepare(odl, AppOf(gw), path)
       IN /\ odl' = o1
          /\ thr' = [thr EXCEPT ![gw] =
                        [path |-> path, wire |-> <<>>, op |-> op,
                         args |-> args, built |-> o1.url, resp |-> None,
                         pc |-> "prepared"]]
    /\ flow' = IF gw = "flow" THEN Clear(op, flow) ELSE flow
    /\ node' = IF gw = "node" THEN Clear(op, node) ELSE node
    /\ ncalls' = ncalls + 1
    /\ UNCHANGED last

\* requests.get/post/delete(url=self.odl.url, auth=self.odl.auth, ...) and
\* the assignment of the response to self.request
Send(gw) ==
    /\ thr[gw].pc = "prepared"
    /\ \E resp \in Responses :
         /\ thr' = [thr EXCEPT
                      ![gw].pc = "sent",
                      ![gw].wire = requests_call(@, HttpMethod(thr[gw].op),
                                                 odl.url, odl.auth,
                                                 Data(thr[gw].op, thr[gw].args),
                                                 Headers(thr[gw].op)),
                      ![gw].resp = resp]
         /\ flow' = IF gw = "flow" THEN [flow EXCEPT !.request = resp] ELSE flow
         /\ node' = IF gw = "node" THEN [node EXCEPT !.request = resp] ELSE node
    /\ UNCHANGED <<odl, last, ncalls>>

\* the status check, the decoding and the raise
Finish(gw) ==
    /\ thr[gw].pc = "sent"
    /\ LET c == thr[gw]
           r == Interpret(c.op, IF gw = "flow" THEN flow ELSE node, odl)
       IN /\ flow' = IF gw = "flow" THEN r.self ELSE flow
          /\ node' = IF gw = "node" THEN r.self ELSE node
          /\ last' = Call(gw, c.op, c.args, c.path, c.built, c.wire, c.resp,
                          r.outcome)
    /\ thr' = [thr EXCEPT ![gw] = Idle]
    /\ UNCHANGED <<odl, ncalls>>

FlowCall ==
    \E op \in {"get", "add", "delete"} :
        \E args \in ArgsOf(op) : Begin("flow", op, args)

NodeCall ==
    \E op \in {"get_nodes", "get_node_connectors", "save"} :
        \E args \in ArgsOf(op) : Begin("node", op, args)

SendRequest == \E gw \in Gateways : Send(gw)

Complete == \E gw \in Gateways : Finish(gw)

NextConcurrent ==
    \/ FlowCall
    \/ NodeCall
    \/ SendRequest
    \/ Complete

SpecConcurrent == Init /\ [][NextConcurrent]_vars

----------------------------------------------------------------------------
(* Properties *)

\* the attribute a read operation stores its decoded result in
Result(op) ==
    CASE op = "get" -> flow.flows
      [] op = "get_nodes" -> node.nodes
      [] op = "get_node_connectors" -> node.node_connectors

\* the wrapper key a read operation unwraps
WrapperKey(op) ==
    CASE op = "get" -> "flowConfig"
      [] op = "get_nodes" -> "nodeProperties"
      [] op = "get_node_connectors" -> "nodeConnectorProperties"

\* the url the specification documents for a configuration, an application
\* and a sub-path
DocumentedUrl(c, app, path) ==
    Str(c.http \o c.hostname \o ":" \o c.port \o c.path \o app \o "/"
        \o c.container \o path)

\* C1: add(flow) returns normally if and only if the transport's status is
\* 201; with any other status it raises OpenDaylightError carrying that
\* status, after the one request it made (no retry, nothing suppressed).
C1_AddSucceedsOnlyOn201 ==
    last.op = "add" =>
        /\ (last.outcome = Returned) <=> (last.resp.status_code = 201)
        /\ last.resp.status_code # 201 =>
              /\ last.outcome.t = "raised"
              /\ last.outcome.exc = "OpenDaylightError"
              /\ last.outcome.payload.http_code = last.resp.status_code
        /\ Len(last.wire) = 1

C1_Witness ==
    /\ last.op = "add"
    /\ last.resp.status_code = 409
    /\ last.outcome.exc = "OpenDaylightError"
    /\ last.outcome.payload.http_code = 409

\* C2: a read operation (get, get_nodes, get_node_connectors) answered with a
\* status other than 200 raises OpenDaylightError carrying the url of its
\* request, the status code and the raw body, and leaves no decoded result
\* in its result attribute.
C2_ReadFailureRaises ==
    (last.op \in ReadOps /\ last.resp.status_code # 200) =>
        /\ Len(last.wire) = 1
        /\ last.outcome = OpenDaylightError(last.wire[1].url,
                                            last.resp.status_code,
                                            last.resp.text)
        /\ Result(last.op) = Absent

C2_Witness ==
    /\ last.op = "get"
    /\ last.resp = Response(404, BodyFlowConfig)
    /\ last.outcome.exc = "OpenDaylightError"
    /\ flow.flows = Absent
    /\ ncalls = 2

\* C3: on status 200 a read operation returns normally for every decoded
\* JSON value, storing the value under the wrapper key when the value is a
\* mapping with that key and the decoded value itself otherwise.
C3_UnwrapOnlyMappings ==
    (/\ last.op \in ReadOps
     /\ last.resp.status_code = 200
     /\ json_loads(last.resp.text).t # "raised") =>
        LET j == json_loads(last.resp.text)
            key == WrapperKey(last.op)
        IN /\ last.outcome = Returned
           /\ Result(last.op) =
                 IF j.t = "dict" /\ key \in DOMAIN j.items
                 THEN j.items[key] ELSE j

\* C4: the sub-path get passes to the url builder is "/" with no argument,
\* "/OF/{nodeId}/" with node_id alone and "/OF/{nodeId}/{flowName}/" with
\* both, and it is the tail of the url requested.
C4_GetPathByArity ==
    last.op = "get" =>
        LET n == last.args.node_id
            f == last.args.flow_name
        IN /\ (n = None /\ f = None) => last.path = "/"
           /\ (n # None /\ f = None) => last.path = "/OF/" \o n.s \o "/"
           /\ (n # None /\ f # None) =>
                 last.path = "/OF/" \o n.s \o "/" \o f.s \o "/"
           /\ \E c \in Setups :
                 last.wire[1].url = DocumentedUrl(c, "flow", last.path)

C4_Witness ==
    /\ last.op = "get"
    /\ last.args.node_id = Str("00:00:01")
    /\ last.args.flow_name = Str("f1")
    /\ last.path = "/OF/00:00:01/f1/"

\* C5: delete and save return normally if and only if the status is 200;
\* with any other status (201 and 204 included) they raise OpenDaylightError
\* carrying the url, the status code and the body.
C5_DeleteSaveSucceedOnlyOn200 ==
    last.op \in {"delete", "save"} =>
        /\ (last.outcome = Returned) <=> (last.resp.status_code = 200)
        /\ last.resp.status_code # 200 =>
              last.outcome = OpenDaylightError(last.wire[1].url,
                                               last.resp.status_code,
                                               last.resp.text)

C5_Witness ==
    /\ last.op = "save"
    /\ last.resp.status_code = 204
    /\ last.outcome.exc = "OpenDaylightError"
    /\ last.outcome.payload.http_code = 204

\* C6: a call of an unimplemented operation (update on the Flow gateway, the
\* four property operations on the Node gateway) fails with the
\* unimplemented-operation error, makes no request and changes neither
\* gateway nor the connection object.
C6_UnimplementedAlwaysFails ==
    [][(ncalls' # ncalls /\ last'.op \in UnimplementedOps) =>
          /\ last'.outcome.t = "raised"
          /\ last'.outcome.exc = "NotImplementedError"
          /\ last'.wire = <<>>
          /\ flow' = flow /\ node' = node /\ odl' = odl]_vars

\* C7: the url and the credentials of a call's request are those derived
\* from the setup values current at that call: scheme, host, ":", port, base
\* path, application ("flow" or "switch"), "/", container and sub-path, and
\* (username, password).
C7_UrlAndAuthFromCurrentSetup ==
    [][(ncalls' # ncalls /\ last'.op \in ImplementedOps) =>
          /\ Len(last'.wire) = 1
          /\ last'.wire[1].url =
                DocumentedUrl(odl.setup,
                              IF last'.gw = "flow" THEN "flow" ELSE "switch",
                              last'.path)
          /\ last'.wire[1].auth =
                HTTPBasicAuth(odl.setup.username, odl.setup.password)]_vars

C7_Witness ==
    /\ ncalls = 2
    /\ last.op = "get_nodes"
    /\ odl.setup = OtherSetup
    /\ last.wire[1].url = Str("https://10.10.10.1:8181/nb/v3/switch/lab/nodes/")
    /\ last.wire[1].auth = HTTPBasicAuth("dale", "secret")

\* C8: every implemented operation makes exactly one transport request per
\* call, whether it returns or raises.
C8_OneRequestPerCall ==
    last.op \in ImplementedOps =>
        /\ Len(last.wire) = 1
        /\ last.wire[1].method = HttpMethod(last.op)

C8_Witness ==
    /\ last.op = "delete"
    /\ last.resp.status_code = 500
    /\ last.outcome.exc = "OpenDaylightError"
    /\ Len(last.wire) = 1

\* C9: after an operation nothing of an earlier call is readable from the
\* gateway: the stored response is that of the operation, and a decoded
\* result is held only by the operation that produced it.
C9_NothingFromEarlierCall ==
    /\ last.op \in {"get", "add", "delete"} => flow.request = last.resp
    /\ last.op \in {"get_nodes", "get_node_connectors", "save"} =>
          node.request = last.resp
    /\ last.op \in {"add", "delete"} => flow.flows \in {None, Absent}
    /\ last.op \in {"get_node_connectors", "save"} =>
          node.nodes \in {None, Absent}
    /\ last.op \in {"get_nodes", "save"} =>
          node.node_connectors \in {None, Absent}

\* C10: when the two gateways run calls whose steps interleave, each call
\* sends its request to the url it built itself and reports that url in its
\* error.
C10_NoContention ==
    /\ \A g \in Gateways :
          thr[g].pc = "sent" => thr[g].wire[1].url = thr[g].built
    /\ last.op # "none" =>
          /\ last.wire[1].url = last.built
          /\ last.outcome.exc = "OpenDaylightError" =>
                last.outcome.payload.url = last.built

\* C11: no gateway call, whatever its outcome (return, controller error,
\* unimplemented), changes any of the seven entries of odl.setup; the url and
\* credential steps run inside the call.
C11_SetupUnchangedByCalls ==
    [][ncalls' # ncalls => odl'.setup = odl.setup]_vars

C11_Witness ==
    /\ ncalls = 2
    /\ last.op = "add"
    /\ last.outcome.exc = "OpenDaylightError"
    /\ odl.setup = OtherSetup
    /\ odl.auth = HTTPBasicAuth("dale", "secret")

\* C12: a read operation answered with status 200 and a body that is not
\* JSON ends with the decoder's error (ValueError), which is not an
\* OpenDaylightError and is not swallowed, and leaves no decoded result in
\* its result attribute.
C12_DecodeErrorSurfaces ==
    (/\ last.op \in ReadOps
     /\ last.resp.status_code = 200
     /\ last.resp.text \notin JsonBodies) =>
        /\ last.outcome.t = "raised"
        /\ last.outcome.exc = "ValueError"
        /\ last.outcome.exc # "OpenDaylightError"
        /\ Result(last.op) = Absent

C12_Witness ==
    /\ ncalls = 2
    /\ last.op = "get"
    /\ last.resp = Response(200, BodyNotJson)
    /\ last.outcome = Raised("ValueError", None)
    /\ flow.flows = Absent

\* C13: after an implemented operation that made its request, the request
\* attribute of its gateway holds the response of that operation: status 201
\* after an add that returned, 200 after any other operation that returned,
\* and the status reported in the error after an OpenDaylightError.
C13_RequestHoldsLatestResponse ==
    last.op \in ImplementedOps =>
        LET held == IF last.gw = "flow" THEN flow.request ELSE node.request
        IN /\ held = last.resp
           /\ held.t = "Response"
           /\ (last.outcome = Returned /\ last.op = "add") =>
                 held.status_code = 201
           /\ (last.outcome = Returned /\ last.op # "add") =>
                 held.status_code = 200
           /\ last.outcome.exc = "OpenDaylightError" =>
                 /\ held.status_code = last.outcome.payload.http_code
                 /\ held.status_code # (IF last.op = "add" THEN 201 ELSE 200)

C13_Witness ==
    /\ ncalls = 2
    /\ last.op = "delete"
    /\ last.outcome.exc = "OpenDaylightError"
    /\ flow.request = Response(404, BodyFlowConfig)
    /\ flow.flows = Dict("name" :> Str("f1"))

====
